---------------------------- MODULE Spec2Model ----------------------------
(***************************************************************************)
(* A model of cpp_tutorial_741190.cpp: getColor and generateMandelbrot.    *)
(*                                                                         *)
(* generateMandelbrot is a state machine whose program counter pc walks    *)
(* the function body: the vector's construction, the two for loops, the    *)
(* escape-time while loop (one step per evaluation of its condition), the  *)
(* store of the pixel, the opening of the output stream, the header, the   *)
(* pixel lines and the close.                                              *)
(*                                                                         *)
(* A double is modelled by the dyadic rational n / 2^e it holds (or NaN).  *)
(* The inputs are chosen so that every double operation the program        *)
(* performs on them is exact in IEEE-754 binary64 (no rounding happens):   *)
(* coordinates are multiples of 1/2, and at most MaxIter + 1 squarings     *)
(* are made, so a value never needs more than 16 fractional bits.          *)
(***************************************************************************)
EXTENDS Integers, Sequences, FiniteSets, TLC

\* Largest iteration cap tried by the model of generateMandelbrot.
MaxIter == 3

\* Largest small iteration cap tried on getColor alone.
MaxColorCap == 12

\* Largest value of the 32-bit int type of iterations and maxIterations.
IntMax == 2147483647

\* Widths and heights tried: negative, zero, one (0.0 / 0 in the mapping),
\* and two values for which x / (width - 1) is a dyadic rational.
Dims == {-1, 0, 1, 2, 3}

\* Iteration caps tried: negative, zero and positive.
Iters == -1 .. MaxIter

Max(a, b) == IF a >= b THEN a ELSE b
Min(a, b) == IF a <= b THEN a ELSE b

RECURSIVE pow2(_)
pow2(k) == IF k = 0 THEN 1 ELSE 2 * pow2(k - 1)

RECURSIVE log2(_)
log2(m) == IF m <= 1 THEN 0 ELSE 1 + log2(m \div 2)

(***************************************************************************)
(* double: n / 2^e in lowest terms, or NaN.                                *)
(***************************************************************************)
RECURSIVE dbl(_, _)
dbl(n, e) ==
    IF e > 0 /\ n % 2 = 0 THEN dbl(n \div 2, e - 1)
    ELSE [n |-> n, e |-> e, nan |-> FALSE]

NaN == [n |-> 0, e |-> 0, nan |-> TRUE]

dAdd(a, b) ==
    IF a.nan \/ b.nan THEN NaN
    ELSE LET e == Max(a.e, b.e)
         IN  dbl(a.n * pow2(e - a.e) + b.n * pow2(e - b.e), e)

dSub(a, b) ==
    IF a.nan \/ b.nan THEN NaN
    ELSE LET e == Max(a.e, b.e)
         IN  dbl(a.n * pow2(e - a.e) - b.n * pow2(e - b.e), e)

dMul(a, b) ==
    IF a.nan \/ b.nan THEN NaN ELSE dbl(a.n * b.n, a.e + b.e)

\* a / b for b = 0 (only 0.0 / 0 is reached, since x < width: NaN) and for
\* b a positive power of two (exact).
dDiv(a, b) ==
    IF a.nan \/ b.nan \/ b.n = 0 THEN NaN
    ELSE dbl(a.n * pow2(b.e), a.e + log2(b.n))

\* a < b; false when either side is NaN.
dLt(a, b) ==
    /\ ~a.nan
    /\ ~b.nan
    /\ a.n * pow2(b.e) < b.n * pow2(a.e)

\* (double)i of an int i.
toDouble(i) == dbl(i, 0)

(***************************************************************************)
(* std::complex<double>                                                    *)
(***************************************************************************)
complex(re, im) == [re |-> re, im |-> im]

cMul(a, b) ==
    complex(dSub(dMul(a.re, b.re), dMul(a.im, b.im)),
            dAdd(dMul(a.re, b.im), dMul(a.im, b.re)))

cAdd(a, b) == complex(dAdd(a.re, b.re), dAdd(a.im, b.im))

\* std::norm(z): |z|^2
norm(z) == dAdd(dMul(z.re, z.re), dMul(z.im, z.im))

Zero == complex(dbl(0, 0), dbl(0, 0))

(***************************************************************************)
(* int arithmetic of getColor.                                             *)
(***************************************************************************)
Abs(a) == IF a < 0 THEN -a ELSE a

\* a / b of C++: the quotient truncated toward zero (b # 0).
cDiv(a, b) ==
    IF (a < 0) = (b < 0) THEN Abs(a) \div Abs(b) ELSE -(Abs(a) \div Abs(b))

\* a % b of C++: the remainder has the sign of a.
cMod(a, b) == a - b * cDiv(a, b)

\* (unsigned char)n: n modulo 2^8.
uchar(n) == n % 256

\* The two's-complement 32-bit result of a * b for 0 <= a <= IntMax and
\* 0 <= b < 2^15, computed in 16-bit halves.
mulWrap(a, b) ==
    LET lo   == (a % 65536) * b
        hi   == (a \div 65536) * b + lo \div 65536
        hi16 == hi % 65536
        lo16 == lo % 65536
    IN  IF hi16 >= 32768 THEN (hi16 - 65536) * 65536 + lo16
        ELSE hi16 * 65536 + lo16

\* <<q, r>> with 2^j * (q0 * n + r0) = q * n + r and 0 <= r < n < 2^30.
RECURSIVE shiftDiv(_, _, _, _)
shiftDiv(j, q0, r0, n) ==
    IF j = 0 THEN <<q0, r0>>
    ELSE IF 2 * r0 >= n THEN shiftDiv(j - 1, 2 * q0 + 1, 2 * r0 - n, n)
         ELSE shiftDiv(j - 1, 2 * q0, 2 * r0, n)

\* The quotient (i * 255) / n of a product evaluated without overflow, for
\* 0 <= i <= n < 2^30: i * 255 = i * 256 - i.
wideQuot(i, n) ==
    LET p == IF i = n THEN <<256, 0>> ELSE shiftDiv(8, 0, i, n)
    IN  IF p[2] >= i THEN p[1] ELSE p[1] - 1

\* The values `(iterations * 255) / maxIterations` can take (iterations >= 0,
\* maxIterations # 0).  When iterations * 255 exceeds IntMax the signed
\* multiplication overflows, which is undefined: the build either wraps the
\* product to 32 bits or evaluates it in a wider register.
colorValue(iterations, maxIterations) ==
    IF iterations <= IntMax \div 255
    THEN {cDiv(iterations * 255, maxIterations)}
    ELSE {cDiv(mulWrap(iterations, 255), maxIterations),
          wideQuot(iterations, maxIterations)}

RGB(r, g, b) == [r |-> r, g |-> g, b |-> b]

Black == RGB(0, 0, 0)

\* The RGB braced initialiser of getColor's last line.
rgbOf(colorValue_) ==
    RGB(uchar(cMod(colorValue_, 255)),
        uchar(cMod(colorValue_ * 2, 255)),
        uchar(cMod(colorValue_ * 4, 255)))

\* getColor evaluates a division by zero.
divByZero(iterations, maxIterations) ==
    iterations # maxIterations /\ maxIterations = 0

\* The set of values getColor can return (one value unless the product
\* overflows); maxIterations # 0 or iterations = maxIterations.
getColor(iterations, maxIterations) ==
    IF iterations = maxIterations THEN {Black}
    ELSE {rgbOf(v) : v \in colorValue(iterations, maxIterations)}

(***************************************************************************)
(* The pixel mapping and the escape-time loop of generateMandelbrot.       *)
(***************************************************************************)
\* real = realStart + (double)x / (width - 1) * (realEnd - realStart)
mapAxis(start, end, i, dim) ==
    dAdd(start, dMul(dDiv(toDouble(i), toDouble(dim - 1)), dSub(end, start)))

\* The bounds of the view.
viewRealStart(zoom, offsetX) == dSub(dMul(dbl(-2, 0), zoom), offsetX)
viewRealEnd(zoom, offsetX) == dSub(dMul(dbl(1, 0), zoom), offsetX)
viewImagStart(zoom, offsetY) == dSub(dMul(dbl(-3, 1), zoom), offsetY)
viewImagEnd(zoom, offsetY) == dSub(dMul(dbl(3, 1), zoom), offsetY)

\* The squared escape radius.
Four == dbl(4, 0)

\* std::norm(z) < 4.0
bounded(z) == dLt(norm(z), Four)

\* A loop that tests the cap with <= and so runs one pass too many.
loopCondOffByOne(z, iterations, maxIterations) ==
    bounded(z) /\ iterations <= maxIterations

\* The condition of the while loop.
loopCond(z, iterations, maxIterations) ==
    bounded(z) /\ iterations < maxIterations

\* An update that subtracts c.
stepMinus(z, c) == cAdd(cMul(z, z), complex(dSub(dbl(0, 0), c.re), dSub(dbl(0, 0), c.im)))

\* z = z * z + c
step(z, c) == cAdd(cMul(z, z), c)

\* The while loop run to its exit from (z, iterations): the final z and count.
RECURSIVE escapeLoop(_, _, _, _)
escapeLoop(z, c, iterations, maxIterations) ==
    IF loopCond(z, iterations, maxIterations)
    THEN escapeLoop(step(z, c), c, iterations + 1, maxIterations)
    ELSE [z |-> z, iterations |-> iterations]

\* The count the loop leaves for the coordinate c.
escapeTime(c, maxIterations) == escapeLoop(Zero, c, 0, maxIterations).iterations

\* A column-major index.
pixelIndexTransposed(x, y, width) == x * width + y

\* The index of pixel (x, y) in the buffer.
pixelIndex(x, y, width) == y * width + x


(***************************************************************************)
(* The state of one call of generateMandelbrot (and, under ColorSpec, of   *)
(* one call of getColor).                                                  *)
(***************************************************************************)
VARIABLES
    pc,             \* the place the call has reached
    width, height, maxIterations, zoom, offsetX, offsetY,   \* the arguments
    image,          \* std::vector<RGB> image, a sequence (index i at i + 1)
    realStart, realEnd, imagStart, imagEnd,                 \* the view
    x, y,           \* the loop counters
    c, z,           \* the coordinate tested and the orbit's current point
    iterations,     \* the escape counter
    stores,         \* the indices the call has assigned in image, in order
    ofs,            \* the output stream: unopened, open, failed or closed
    file,           \* the lines written to the output stream
    k,              \* the number of pixels the writing loop has visited
    cerr, cout,     \* the messages printed
    color           \* the value returned by getColor (ColorSpec)

vars ==
    <<pc, width, height, maxIterations, zoom, offsetX, offsetY, image,
      realStart, realEnd, imagStart, imagEnd, x, y, c, z, iterations,
      stores, ofs, file, k, cerr, cout, color>>

args == <<width, height, maxIterations, zoom, offsetX, offsetY>>
view == <<realStart, realEnd, imagStart, imagEnd>>
sink == <<ofs, file, k, cerr, cout>>

\* The zoom and offset arguments tried (doubles).
Zooms == {dbl(1, 0), dbl(2, 0)}
OffsetsX == {dbl(-2, 0), dbl(-1, 0), dbl(0, 0)}
OffsetsY == {dbl(0, 0), dbl(1, 1)}

\* The locals before their declarations are reached.
Locals ==
    /\ image = <<>>
    /\ realStart = dbl(0, 0) /\ realEnd = dbl(0, 0)
    /\ imagStart = dbl(0, 0) /\ imagEnd = dbl(0, 0)
    /\ x = 0 /\ y = 0
    /\ c = Zero /\ z = Zero
    /\ stores = <<>>
    /\ ofs = "unopened" /\ file = <<>> /\ k = 0
    /\ cerr = <<>> /\ cout = <<>>
    /\ color = Black

\* generateMandelbrot is entered with its arguments.
Init ==
    /\ pc = "entry"
    /\ width \in Dims
    /\ height \in Dims
    /\ maxIterations \in Iters
    /\ zoom \in Zooms
    /\ offsetX \in OffsetsX
    /\ offsetY \in OffsetsY
    /\ iterations = 0
    /\ Locals

\* std::vector<RGB> image(width * height) and the four bounds.  The element
\* count converts to size_t: a negative product exceeds max_size() and the
\* constructor throws std::length_error out of the function.
Construct ==
    /\ pc = "entry"
    /\ IF width * height < 0
       THEN /\ pc' = "threw"
            /\ UNCHANGED <<image, view, y>>
       ELSE /\ image' = [i \in 1 .. width * height |-> Black]
            /\ realStart' = viewRealStart(zoom, offsetX)
            /\ realEnd' = viewRealEnd(zoom, offsetX)
            /\ imagStart' = viewImagStart(zoom, offsetY)
            /\ imagEnd' = viewImagEnd(zoom, offsetY)
            /\ y' = 0
            /\ pc' = "for_y"
    /\ UNCHANGED <<args, x, c, z, iterations, stores, sink, color>>

\* for (int y = 0; y < height; ++y): the test holds, the inner loop starts.
RowBegin ==
    /\ pc = "for_y"
    /\ y < height
    /\ x' = 0
    /\ pc' = "for_x"
    /\ UNCHANGED <<args, image, view, y, c, z, iterations, stores, sink, color>>

\* The outer loop's test fails: the pixel loop is over.
RowsEnd ==
    /\ pc = "for_y"
    /\ ~(y < height)
    /\ pc' = "open"
    /\ UNCHANGED <<args, image, view, x, y, c, z, iterations, stores, sink, color>>

\* A pixel whose orbit starts at z = c instead of z = 0.
PixelBeginFromC ==
    /\ pc = "for_x"
    /\ x < width
    /\ c' = complex(mapAxis(realStart, realEnd, x, width),
                    mapAxis(imagStart, imagEnd, y, height))
    /\ z' = c'
    /\ iterations' = 0
    /\ pc' = "while"
    /\ UNCHANGED <<args, image, view, x, y, stores, sink, color>>

\* for (int x = 0; x < width; ++x): the test holds; c, z and iterations are
\* set for pixel (x, y).
PixelBegin ==
    /\ pc = "for_x"
    /\ x < width
    /\ c' = complex(mapAxis(realStart, realEnd, x, width),
                    mapAxis(imagStart, imagEnd, y, height))
    /\ z' = Zero
    /\ iterations' = 0
    /\ pc' = "while"
    /\ UNCHANGED <<args, image, view, x, y, stores, sink, color>>

\* The inner loop's test fails: ++y.
RowEnd ==
    /\ pc = "for_x"
    /\ ~(x < width)
    /\ y' = y + 1
    /\ pc' = "for_y"
    /\ UNCHANGED <<args, image, view, x, c, z, iterations, stores, sink, color>>

\* The while condition holds: one pass of the loop body.
Iterate ==
    /\ pc = "while"
    /\ loopCond(z, iterations, maxIterations)
    /\ z' = step(z, c)
    /\ iterations' = iterations + 1
    /\ UNCHANGED <<pc, args, image, view, x, y, c, stores, sink, color>>

\* The while condition fails: image[y * width + x] = getColor(...); ++x.
\* A division by zero in getColor traps (SIGFPE).
StorePixel ==
    /\ pc = "while"
    /\ ~loopCond(z, iterations, maxIterations)
    /\ IF divByZero(iterations, maxIterations)
       THEN /\ pc' = "sigfpe"
            /\ UNCHANGED <<image, x, stores, color>>
       ELSE \E col \in getColor(iterations, maxIterations) :
                /\ color' = col
                /\ image' = [image EXCEPT ![pixelIndex(x, y, width) + 1] = col]
                /\ stores' = Append(stores, pixelIndex(x, y, width))
                /\ x' = x + 1
                /\ pc' = "for_x"
    /\ UNCHANGED <<args, view, y, c, z, iterations, sink>>

\* An open whose failure branch reports the error and does not return.
OpenFileNoReturn ==
    /\ pc = "open"
    /\ \E opened \in BOOLEAN :
          IF opened
          THEN /\ ofs' = "open"
               /\ pc' = "header"
               /\ UNCHANGED cerr
          ELSE /\ ofs' = "failed"
               /\ cerr' = Append(cerr, "Error: Could not open file")
               /\ pc' = "header"
    /\ UNCHANGED <<args, image, view, x, y, c, z, iterations, stores, file, k,
                   cout, color>>

\* std::ofstream ofs(filename): whether the file opens is the environment's
\* choice.  When it does not, the error is printed and the function returns.
OpenFile ==
    /\ pc = "open"
    /\ \E opened \in BOOLEAN :
          IF opened
          THEN /\ ofs' = "open"
               /\ pc' = "header"
               /\ UNCHANGED cerr
          ELSE /\ ofs' = "failed"
               /\ cerr' = Append(cerr, "Error: Could not open file")
               /\ pc' = "returned"
    /\ UNCHANGED <<args, image, view, x, y, c, z, iterations, stores, file, k,
                   cout, color>>

\* ofs << "P3\n" << width << " " << height << "\n255\n"
WriteHeader ==
    /\ pc = "header"
    /\ file' = file \o <<"P3", <<width, height>>, 255>>
    /\ k' = 0
    /\ pc' = "pixels"
    /\ UNCHANGED <<args, image, view, x, y, c, z, iterations, stores, ofs,
                   cerr, cout, color>>

\* for (const auto& pixel : image): one line per pixel.
WritePixel ==
    /\ pc = "pixels"
    /\ k < Len(image)
    /\ file' = Append(file, <<image[k + 1].r, image[k + 1].g, image[k + 1].b>>)
    /\ k' = k + 1
    /\ UNCHANGED <<pc, args, image, view, x, y, c, z, iterations, stores, ofs,
                   cerr, cout, color>>

\* ofs.close() and the message.
Close ==
    /\ pc = "pixels"
    /\ ~(k < Len(image))
    /\ ofs' = "closed"
    /\ cout' = Append(cout, "Mandelbrot image saved")
    /\ pc' = "returned"
    /\ UNCHANGED <<args, image, view, x, y, c, z, iterations, stores, file, k,
                   cerr, color>>

Next ==
    \/ Construct
    \/ RowBegin
    \/ RowsEnd
    \/ PixelBegin
    \/ RowEnd
    \/ Iterate
    \/ StorePixel
    \/ OpenFile
    \/ WriteHeader
    \/ WritePixel
    \/ Close

Spec == Init /\ [][Next]_vars

\* The call runs to its end: nothing suspends a step that can be taken.
FairSpec == Spec /\ WF_vars(Next)

(***************************************************************************)
(* getColor alone, on arguments with 0 <= iterations <= maxIterations and  *)
(* maxIterations >= 1.                                                     *)
(***************************************************************************)
\* Arguments near the largest iterations for which iterations * 255 fits int.
BigArgs ==
    {<<8421504, 16777216>>, <<8421505, 16777216>>, <<12582912, 16777216>>,
     <<16777215, 16777216>>, <<16777216, 16777216>>}

ColorArgs == {<<i, n>> \in (0 .. MaxColorCap) \X (1 .. MaxColorCap) : i <= n} \cup BigArgs

ColorInit ==
    /\ pc = "getColor"
    /\ \E a \in ColorArgs : iterations = a[1] /\ maxIterations = a[2]
    /\ width = 0 /\ height = 0
    /\ zoom = dbl(1, 0) /\ offsetX = dbl(0, 0) /\ offsetY = dbl(0, 0)
    /\ Locals

\* color = getColor(iterations, maxIterations)
ColorCall ==
    /\ pc = "getColor"
    /\ color' \in getColor(iterations, maxIterations)
    /\ pc' = "got"
    /\ UNCHANGED <<args, image, view, x, y, c, z, iterations, stores, sink>>

ColorSpec == ColorInit /\ [][ColorCall]_vars

(***************************************************************************)
(* Properties.                                                             *)
(***************************************************************************)
\* The while loop of the current pixel has just exited.
LoopExit == pc = "while" /\ ~loopCond(z, iterations, maxIterations)

\* The pixel loop is over.
PixelLoopDone == pc \in {"open", "header", "pixels", "returned"}

ValidArgs == width >= 2 /\ height >= 2 /\ maxIterations >= 1

finite(a) == ~a.re.nan /\ ~a.im.nan

\* The coordinate of pixel (px, py) under the current view.
coordinate(px, py) ==
    complex(mapAxis(realStart, realEnd, px, width),
            mapAxis(imagStart, imagEnd, py, height))

channelsOk(p) == p.r \in 0 .. 255 /\ p.g \in 0 .. 255 /\ p.b \in 0 .. 255

\* The k-th point of the orbit of c (z_0 = 0).
RECURSIVE orbit(_, _)
orbit(c0, n) == IF n = 0 THEN Zero ELSE step(orbit(c0, n - 1), c0)

\* The first n <= MaxIter at which the orbit of c has |z_n|^2 >= 4 (or is no
\* number), MaxIter + 1 when there is none.
firstEscape(c0) ==
    LET escapes(n) ==
            (\A j \in 0 .. n - 1 : bounded(orbit(c0, j))) /\ ~bounded(orbit(c0, n))
    IN  IF \E n \in 0 .. MaxIter : escapes(n)
        THEN CHOOSE n \in 0 .. MaxIter : escapes(n)
        ELSE MaxIter + 1

\* C1: for width >= 2, height >= 2 and maxIterations >= 1, no index outside
\* [0, width*height) is ever written, and when the pixel loop has finished
\* the buffer holds width*height entries, every index y*width+x was written
\* exactly once, holds the colour getColor gives for the escape count of
\* pixel (x, y), and every channel is in [0, 255].
C1_BufferComplete ==
    ValidArgs =>
        /\ \A j \in 1 .. Len(stores) : stores[j] \in 0 .. width * height - 1
        /\ PixelLoopDone =>
            /\ Len(image) = width * height
            /\ \A px \in 0 .. width - 1 : \A py \in 0 .. height - 1 :
                /\ Cardinality({j \in 1 .. Len(stores) : stores[j] = py * width + px}) = 1
                /\ image[py * width + px + 1] \in
                       getColor(escapeTime(coordinate(px, py), maxIterations),
                                maxIterations)
                /\ channelsOk(image[py * width + px + 1])

C1_Witness ==
    /\ ValidArgs
    /\ pc = "returned"
    /\ width = 3 /\ height = 2 /\ maxIterations = 3
    /\ \E i \in 1 .. Len(image) : image[i] # Black

\* C2: for maxIterations >= 1, when the escape loop exits the count equals
\* maxIterations if and only if |z|^2 < 4 still holds.
C2_CapIffBounded ==
    (LoopExit /\ ValidArgs) =>
        ((iterations = maxIterations) <=> bounded(z))

\* C3 as stated: for |c|^2 >= 4 and maxIterations >= 1 the loop returns 0.
C3_CountZero ==
    (LoopExit /\ maxIterations >= 1 /\ finite(c) /\ ~bounded(c)) =>
        iterations = 0

\* C3 as amended: for |c|^2 >= 4 and maxIterations >= 1 the loop returns 1
\* (the first test is made on z = 0, so one update is made before the test
\* on z = c fails).
C3_CountOne ==
    (LoopExit /\ maxIterations >= 1 /\ finite(c) /\ ~bounded(c)) =>
        iterations = 1

C3_Witness ==
    /\ LoopExit
    /\ maxIterations = 3
    /\ finite(c) /\ ~bounded(c)
    /\ ValidArgs

KnownPoints == {Zero, complex(dbl(-1, 0), dbl(0, 0))}

\* C4: for c = 0 and c = -1 and maxIterations >= 1 the loop returns exactly
\* maxIterations, and the colour getColor gives, and the one stored, is black.
C4_KnownPoints ==
    (maxIterations >= 1 /\ c \in KnownPoints) =>
        /\ LoopExit =>
            /\ iterations = maxIterations
            /\ getColor(iterations, maxIterations) = {Black}
        /\ (pc = "for_x" /\ stores # <<>>) =>
            /\ color = Black
            /\ image[stores[Len(stores)] + 1] = Black

C4_Witness ==
    /\ pc = "for_x" /\ stores # <<>>
    /\ c = complex(dbl(-1, 0), dbl(0, 0))
    /\ maxIterations = 3
    /\ iterations = 3

\* C5: the count the loop leaves is min(maxIterations, first n at which the
\* orbit has |z_n|^2 >= 4), and no smaller cap gives a larger count.
C5_Monotone ==
    (LoopExit /\ maxIterations >= 1) =>
        /\ iterations = Min(maxIterations, firstEscape(c))
        /\ \A n1 \in 1 .. maxIterations : escapeTime(c, n1) <= iterations
        /\ \A n2 \in maxIterations .. MaxIter :
               iterations <= escapeTime(c, n2)

C5_Witness ==
    /\ LoopExit
    /\ maxIterations = 3
    /\ iterations = 2
    /\ finite(c)

\* floor(i * 255 / n) for 0 <= i <= n.
exactColorValue(i, n) ==
    IF i <= IntMax \div 255 THEN (i * 255) \div n ELSE wideQuot(i, n)

\* C6: for maxIterations >= 1 and 0 <= iterations <= maxIterations, getColor
\* returns black when iterations = maxIterations and otherwise
\* (v mod 255, 2v mod 255, 4v mod 255) with v = floor(iterations * 255 /
\* maxIterations), every channel in [0, 255].
C6_ColorFormula ==
    pc = "got" =>
        /\ color =
             IF iterations = maxIterations THEN Black
             ELSE LET v == exactColorValue(iterations, maxIterations)
                  IN  RGB(v % 255, (2 * v) % 255, (4 * v) % 255)
        /\ channelsOk(color)

\* C7: a call with width < 2, height < 2 or maxIterations <= 0 stores no
\* pixel, and its output file is neither opened nor written.
C7_Rejected ==
    (width < 2 \/ height < 2 \/ maxIterations <= 0) =>
        /\ stores = <<>>
        /\ ofs \notin {"open", "closed"}
        /\ file = <<>>

\* The stream is touched only after every pixel (x, y) of the two loops is
\* stored, and a failed open is reported and leaves the file unwritten.
SinkAfterRender ==
    /\ (ofs # "unopened" \/ file # <<>>) =>
        /\ PixelLoopDone
        /\ \A px \in 0 .. width - 1 : \A py \in 0 .. height - 1 :
               \E j \in 1 .. Len(stores) : stores[j] = py * width + px
    /\ ofs = "failed" =>
        /\ pc = "returned"
        /\ file = <<>>
        /\ Len(cerr) = 1
        /\ cout = <<>>

\* Once the pixel loop is over the buffer no longer changes, and a failed
\* open is final: nothing is opened or written afterwards.
SinkStep ==
    /\ PixelLoopDone => image' = image
    /\ ofs = "failed" => (ofs' = "failed" /\ file' = file /\ cerr' = cerr)
    /\ ofs # "unopened" => ofs' # "unopened"

\* C8: the output file is opened only after all width*height pixels are
\* stored; a failed open is reported, nothing is written, the buffer is left
\* unchanged and the open is not tried again.
C8_SinkAfterRender == []SinkAfterRender /\ [][SinkStep]_vars

C8_Witness ==
    /\ ofs = "failed"
    /\ pc = "returned"
    /\ width = 2 /\ height = 3
    /\ maxIterations = 2
    /\ \E i \in 1 .. Len(image) : image[i] # Black

\* The counter is within [0, maxIterations] whenever maxIterations >= 0.
CountInRange == maxIterations >= 0 => iterations \in 0 .. maxIterations

\* C9: for maxIterations >= 0 the counter stays within [0, maxIterations]
\* (so at most maxIterations updates of z are made and the value passed to
\* getColor is in that range), and the loop terminates.
C9_BoundedLoop == []CountInRange /\ ((pc = "while") ~> (pc # "while"))

C9_Witness ==
    /\ LoopExit
    /\ maxIterations = 3
    /\ iterations = 3
    /\ bounded(z)

\* C10: getColor never divides by maxIterations = 0: with maxIterations = 0
\* the loop makes no iteration, the count is 0 and the pixel is black.
C10_NoDivisionByZero ==
    /\ pc # "sigfpe"
    /\ LoopExit => ~divByZero(iterations, maxIterations)
    /\ maxIterations = 0 =>
        /\ iterations = 0
        /\ \A j \in 1 .. Len(stores) : image[stores[j] + 1] = Black

C10_Witness ==
    /\ maxIterations = 0
    /\ pc = "returned"
    /\ Len(stores) = 6

=============================================================================
